---- MODULE Spec2Model ----
(***************************************************************************)
(* A model of src/zcbenchmarks.cpp: the timer, the benchmark operations    *)
(* and the concurrent runner benchmark_solve_equihash_threaded.            *)
(***************************************************************************)
EXTENDS Integers, Sequences, FiniteSets, TLC

\* ------------------------------------------------------------------ bounds
\* The number of benchmark_solve_equihash calls that run at once.
MaxInstances == 2
\* randombytes_buf gives a nonce in 1..MaxNonce.
MaxNonce == 2
\* The clock's seconds field ranges over 0..MaxSec.
MaxSec == 2
\* The clock's microseconds field ranges over the MaxUsecEdge + 1 lowest and the
\* MaxUsecEdge + 1 highest values of 0..USEC_PER_SEC - 1.
MaxUsecEdge == 1
\* Largest concurrency degree passed to benchmark_solve_equihash_threaded.
MaxThreads == 3
\* The durations a solve task may report, in clock ticks: 1..MaxDuration.
MaxDuration == 2

VARIABLES
    \* ---- benchmark_solve_equihash_threaded (lines 130-144)
    nThreads,     \* the argument
    i,            \* the launch loop's counter
    tasks,        \* std::vector<shared_future<double>>: the ids of the tasks held
    ret,          \* std::vector<double>
    it,           \* the iterator wait_for_any returned, as an index; Len(tasks)+1 is end()
    rpc,          \* the runner's position
    tstate,       \* per task: "idle", "running", "ready" (a value), "failed" (an exception)
    tresult,      \* per task: the duration its benchmark_solve_equihash returned
    aborted,      \* the process was terminated by a failed assert
    \* ---- history (what happened, for stating the claims)
    order,        \* the ids of the tasks collected, in the order of ret
    finished,     \* the ids of the tasks that became ready, in completion order
    readyAtPick   \* per task: the tasks that were ready when wait_for_any picked it

runnerVars == <<nThreads, i, tasks, ret, it, rpc, tstate, tresult, aborted,
                order, finished, readyAtPick>>

VARIABLES
    \* ---- timer_start / timer_stop (lines 27-40)
    clock,        \* what gettimeofday reads now: [sec, usec]
    tv_start,     \* the caller's timeval, set by timer_start
    tv_end,       \* timer_stop's local timeval
    elapsed,      \* timer_stop's result, in units of 1/USEC_PER_SEC seconds
    tpc           \* "idle", "running" (after timer_start), "stopped"

timerVars == <<clock, tv_start, tv_end, elapsed, tpc>>

VARIABLES
    \* ---- one call of a benchmark operation (lines 42-128, 146-217)
    bench,        \* the operation called
    bpc,          \* the index in Steps(bench) of the statement to run next
    bstatus,      \* "running", "returned", "threw" (an exception left it), "aborted"
    btimer,       \* the call's timer: "unset", "running", "stopped"
    bret,         \* whether the call returned a duration
    newParams,    \* parameter_loading's heap object: "none", "allocated", "deleted"
    proofOk,      \* create_joinsplit: what jsdesc.Verify gave, once called
    MAX_BLOCK_SIZE, \* the consensus constant large_tx reads
    txSize,       \* large_tx: ss.size(), once serialized
    vin,          \* large_tx: the verification loop's counter i
    \* ---- history
    before,       \* the statements run before timer_start
    during,       \* the statements run between timer_start and timer_stop
    after,        \* the statements run after timer_stop
    badInput      \* large_tx: the input whose VerifyScript failed, -1 if none did

benchVars == <<bench, bpc, bstatus, btimer, bret, newParams, proofOk, MAX_BLOCK_SIZE,
               txSize, vin, before, during, after, badInput>>

VARIABLES
    \* ---- concurrent calls of benchmark_solve_equihash (lines 103-128)
    chainParams,  \* Params(CBaseChainParams::MAIN): the process-wide [n, k]
    frame,        \* per storage slot: the locals ss, n, k, eh_state, nonce, tv_start, solns
    spc,          \* per call: the index in SolveEquihashSteps of its next statement
    \* ---- history
    drew,         \* per call: the nonce randombytes_buf gave it
    solved,       \* per call: the hash state its solver ran on
    writers       \* per storage slot: the calls that wrote to it

solveVars == <<chainParams, frame, spc, drew, solved, writers>>

vars == <<runnerVars, timerVars, benchVars, solveVars>>

nonRunnerVars == <<timerVars, benchVars, solveVars>>
nonTimerVars == <<runnerVars, benchVars, solveVars>>
nonBenchVars == <<runnerVars, timerVars, solveVars>>
nonSolveVars == <<runnerVars, timerVars, benchVars>>

\* ------------------------------------------------------------------ helpers
TaskIds == 1..(MaxThreads + 1)
Durations == 1..MaxDuration

Min(S) == CHOOSE x \in S : \A y \in S : x <= y
Max(S) == CHOOSE x \in S : \A y \in S : x >= y

\* The position of x in sequence s, 0 when absent.
Pos(s, x) == IF \E k \in 1..Len(s) : s[k] = x
             THEN Min({k \in 1..Len(s) : s[k] = x}) ELSE 0

Range(s) == {s[k] : k \in 1..Len(s)}

\* How often v occurs among f[d], d in D.
Count(f, D, v) == Cardinality({d \in D : f[d] = v})

\* ------------------------------------------------ the timer, lines 27-40
\* Microseconds per second, the divisor of line 38.
USEC_PER_SEC == 1000000

UsecValues == (0..MaxUsecEdge) \cup ((USEC_PER_SEC - 1 - MaxUsecEdge)..(USEC_PER_SEC - 1))

\* The values of a struct timeval.
Timevals == [sec : 0..MaxSec, usec : UsecValues]

NoTimeval == [sec |-> 0, usec |-> 0]

\* Lines 37-38 with the division done on the integers, (end.usec - start.usec)
\* / 1000000 truncated toward zero: the fraction is lost.
ElapsedIntegerDivision(start, end) == (end.sec - start.sec) * USEC_PER_SEC

\* Lines 37-38: double(end.sec - start.sec) + (end.usec - start.usec)/double(1000000),
\* as an exact multiple of 1/USEC_PER_SEC second (the double's rounding is left out).
Elapsed(start, end) ==
    (end.sec - start.sec) * USEC_PER_SEC + (end.usec - start.usec)

TimerInit ==
    /\ clock \in Timevals
    /\ tv_start = NoTimeval
    /\ tv_end = NoTimeval
    /\ elapsed = 0
    /\ tpc = "idle"

TimerIdle ==
    /\ clock = NoTimeval
    /\ tv_start = NoTimeval
    /\ tv_end = NoTimeval
    /\ elapsed = 0
    /\ tpc = "idle"

\* gettimeofday reads the wall clock, which runs on and can also be set back.
ClockChange ==
    /\ \E t \in Timevals : t # clock /\ clock' = t
    /\ UNCHANGED <<tv_start, tv_end, elapsed, tpc>>
    /\ UNCHANGED nonTimerVars

\* Lines 27-30.
timer_start ==
    /\ tpc = "idle"
    /\ tv_start' = clock
    /\ tpc' = "running"
    /\ UNCHANGED <<clock, tv_end, elapsed>>
    /\ UNCHANGED nonTimerVars

\* Lines 32-40.
timer_stop ==
    /\ tpc = "running"
    /\ tv_end' = clock
    /\ elapsed' = Elapsed(tv_start, clock)
    /\ tpc' = "stopped"
    /\ UNCHANGED <<clock, tv_start>>
    /\ UNCHANGED nonTimerVars

TimerNext == ClockChange \/ timer_start \/ timer_stop

\* ------------------------------- the benchmark operations, lines 42-128, 146-217
\* The statements of each operation in program order: what it does, its first
\* line, and how it acts on the call's state.
St(n, l, a) == [name |-> n, line |-> l, act |-> a]

SleepSteps == <<
    St("timer_start", 45, "start"),
    St("sleep", 46, "plain"),
    St("timer_stop", 47, "stop"),
    St("return", 47, "return") >>

ParameterLoadingSteps == <<
    St("pk_path", 53, "plain"),
    St("vk_path", 54, "plain"),
    St("timer_start", 57, "start"),
    St("Unopened", 59, "alloc"),
    St("loadVerifyingKey", 61, "load"),
    St("setProvingKeyPath", 62, "plain"),
    St("loadProvingKey", 63, "load"),
    St("timer_stop", 65, "stop"),
    St("delete", 67, "delete"),
    St("return", 69, "return") >>

CreateJoinsplitTimerFirst == <<
    St("pubKeyHash", 74, "plain"),
    St("timer_start", 80, "start"),
    St("anchor", 77, "plain"),
    St("JSDescription", 81, "plain"),
    St("timer_stop", 88, "stop"),
    St("assert_Verify", 90, "assert_proof"),
    St("return", 91, "return") >>

CreateJoinsplitSteps == <<
    St("pubKeyHash", 74, "plain"),
    St("anchor", 77, "plain"),
    St("timer_start", 80, "start"),
    St("JSDescription", 81, "plain"),
    St("timer_stop", 88, "stop"),
    St("assert_Verify", 90, "assert_proof"),
    St("return", 91, "return") >>

VerifyJoinsplitSteps == <<
    St("timer_start", 97, "start"),
    St("pubKeyHash", 98, "plain"),
    St("Verify", 99, "plain"),
    St("timer_stop", 100, "stop"),
    St("return", 100, "return") >>

SolveEquihashSteps == <<
    St("serialize_header", 105, "plain"),
    St("EquihashN_K", 110, "plain"),
    St("EhInitialiseState", 112, "plain"),
    St("update_header", 114, "plain"),
    St("randombytes_buf", 116, "plain"),
    St("update_nonce", 118, "plain"),
    St("timer_start", 123, "start"),
    St("solns", 124, "plain"),
    St("EhOptimisedSolveUncancellable", 125, "plain"),
    St("timer_stop", 127, "stop"),
    St("return", 127, "return") >>

VerifyEquihashSteps == <<
    St("params", 148, "plain"),
    St("GenesisBlock", 149, "plain"),
    St("GetBlockHeader", 150, "plain"),
    St("timer_start", 152, "start"),
    St("CheckEquihashSolution", 153, "plain"),
    St("timer_stop", 154, "stop"),
    St("return", 154, "return") >>

LargeTxSteps == <<
    St("MakeNewKey", 163, "plain"),
    St("orig_tx", 171, "plain"),
    St("spending_tx_vin", 179, "plain"),
    St("SignSignature", 187, "plain"),
    St("serialize", 193, "serialize"),
    St("assert_size", 197, "assert_size"),
    St("final_spending_tx", 203, "plain"),
    St("timer_start", 207, "start"),
    St("VerifyScript", 208, "verify"),
    St("timer_stop", 216, "stop"),
    St("return", 216, "return") >>

Benches == {"sleep", "parameter_loading", "create_joinsplit", "verify_joinsplit",
            "solve_equihash", "verify_equihash", "large_tx"}

Steps(b) ==
    CASE b = "sleep" -> SleepSteps
      [] b = "parameter_loading" -> ParameterLoadingSteps
      [] b = "create_joinsplit" -> CreateJoinsplitSteps
      [] b = "verify_joinsplit" -> VerifyJoinsplitSteps
      [] b = "solve_equihash" -> SolveEquihashSteps
      [] b = "verify_equihash" -> VerifyEquihashSteps
      [] b = "large_tx" -> LargeTxSteps

\* Line 160.
NUM_INPUTS == 11100

\* The values of MAX_BLOCK_SIZE the model runs large_tx with: one that 20
\* divides and one that it does not.
BlockSizes == {2000000, 2000010}

\* Line 197: auto error = MAX_BLOCK_SIZE / 20, on unsigned integers.
SizeError(m) == m \div 20

\* The serialized sizes the model tries: the middle and each side of both ends
\* of the window.
TxSizes(m) ==
    {m} \cup {m - SizeError(m) + d : d \in -1..1} \cup {m + SizeError(m) + d : d \in -1..1}

SizeCheckNonStrict(s, m) == s <= m + SizeError(m) /\ s >= m - SizeError(m)

\* Lines 198-199: the two asserts.
SizeCheck(s, m) == s < m + SizeError(m) /\ s > m - SizeError(m)

\* assert(e), lines 90, 198, 199, 210: main.h refuses to compile with NDEBUG, so
\* a false e always aborts.
AssertCompiledOut(e) == TRUE
AssertPasses(e) == e

BenchStart(bs) ==
    /\ bench \in bs
    /\ bpc = 1
    /\ bstatus = "running"
    /\ btimer = "unset"
    /\ bret = FALSE
    /\ newParams = "none"
    /\ proofOk = TRUE
    /\ MAX_BLOCK_SIZE \in (IF bench = "large_tx" THEN BlockSizes ELSE {Min(BlockSizes)})
    /\ txSize = 0
    /\ vin = 0
    /\ before = {}
    /\ during = {}
    /\ after = {}
    /\ badInput = -1

\* No benchmark operation is in use.
BenchIdle == BenchStart({"sleep"})

BenchInit == BenchStart(Benches)

Cur == Steps(bench)[bpc]

At(a) == bstatus = "running" /\ bpc <= Len(Steps(bench)) /\ Cur.act = a

\* The statement at bpc has run: it is recorded in the phase the timer is in.
Ran ==
    /\ before' = IF btimer = "unset" THEN before \cup {Cur.name} ELSE before
    /\ during' = IF btimer = "running" THEN during \cup {Cur.name} ELSE during
    /\ after' = IF btimer = "stopped" THEN after \cup {Cur.name} ELSE after

\* A statement that only computes on the call's locals.
PlainStep ==
    /\ At("plain")
    /\ Ran
    /\ bpc' = bpc + 1
    /\ UNCHANGED <<bench, bstatus, btimer, bret, newParams, proofOk, MAX_BLOCK_SIZE,
                   txSize, vin, badInput>>
    /\ UNCHANGED nonBenchVars

\* timer_start(tv_start).
BenchTimerStart ==
    /\ At("start")
    /\ btimer' = "running"
    /\ bpc' = bpc + 1
    /\ UNCHANGED <<bench, bstatus, bret, newParams, proofOk, MAX_BLOCK_SIZE, txSize, vin,
                   before, during, after, badInput>>
    /\ UNCHANGED nonBenchVars

\* timer_stop(tv_start).
BenchTimerStop ==
    /\ At("stop")
    /\ btimer' = "stopped"
    /\ bpc' = bpc + 1
    /\ UNCHANGED <<bench, bstatus, bret, newParams, proofOk, MAX_BLOCK_SIZE, txSize, vin,
                   before, during, after, badInput>>
    /\ UNCHANGED nonBenchVars

\* return of the elapsed time.
BenchReturn ==
    /\ At("return")
    /\ bstatus' = "returned"
    /\ bret' = TRUE
    /\ UNCHANGED <<bench, bpc, btimer, newParams, proofOk, MAX_BLOCK_SIZE, txSize, vin,
                   before, during, after, badInput>>
    /\ UNCHANGED nonBenchVars

\* Line 59: auto newParams = ZCJoinSplit::Unopened(), a raw pointer to a new object.
AllocParams ==
    /\ At("alloc")
    /\ Ran
    /\ newParams' = "allocated"
    /\ bpc' = bpc + 1
    /\ UNCHANGED <<bench, bstatus, btimer, bret, proofOk, MAX_BLOCK_SIZE, txSize, vin,
                   badInput>>
    /\ UNCHANGED nonBenchVars

\* Lines 61, 63: loadVerifyingKey, loadProvingKey. A key file that cannot be
\* read makes the call throw; nothing in the function catches it.
LoadKey ==
    /\ At("load")
    /\ Ran
    /\ \E ok \in BOOLEAN :
          IF ok THEN bpc' = bpc + 1 /\ bstatus' = bstatus
          ELSE bpc' = bpc /\ bstatus' = "threw"
    /\ UNCHANGED <<bench, btimer, bret, newParams, proofOk, MAX_BLOCK_SIZE, txSize, vin,
                   badInput>>
    /\ UNCHANGED nonBenchVars

\* Line 67: delete newParams.
DeleteParams ==
    /\ At("delete")
    /\ Ran
    /\ newParams' = "deleted"
    /\ bpc' = bpc + 1
    /\ UNCHANGED <<bench, bstatus, btimer, bret, proofOk, MAX_BLOCK_SIZE, txSize, vin,
                   badInput>>
    /\ UNCHANGED nonBenchVars

\* Line 90: assert(jsdesc.Verify(*pzcashParams, pubKeyHash)).
AssertProofVerifies ==
    /\ At("assert_proof")
    /\ Ran
    /\ \E ok \in BOOLEAN :
          /\ proofOk' = ok
          /\ IF AssertPasses(ok) THEN bpc' = bpc + 1 /\ bstatus' = bstatus
             ELSE bpc' = bpc /\ bstatus' = "aborted"
    /\ UNCHANGED <<bench, btimer, bret, newParams, MAX_BLOCK_SIZE, txSize, vin, badInput>>
    /\ UNCHANGED nonBenchVars

\* Lines 193-194: ss << spending_tx; the size depends on the signatures' lengths.
SerializeTx ==
    /\ At("serialize")
    /\ Ran
    /\ txSize' \in TxSizes(MAX_BLOCK_SIZE)
    /\ bpc' = bpc + 1
    /\ UNCHANGED <<bench, bstatus, btimer, bret, newParams, proofOk, MAX_BLOCK_SIZE, vin,
                   badInput>>
    /\ UNCHANGED nonBenchVars

\* Lines 197-199.
AssertSize ==
    /\ At("assert_size")
    /\ Ran
    /\ IF AssertPasses(SizeCheck(txSize, MAX_BLOCK_SIZE))
       THEN bpc' = bpc + 1 /\ bstatus' = bstatus
       ELSE bpc' = bpc /\ bstatus' = "aborted"
    /\ UNCHANGED <<bench, btimer, bret, newParams, proofOk, MAX_BLOCK_SIZE, txSize, vin,
                   badInput>>
    /\ UNCHANGED nonBenchVars

\* Lines 208-215: one iteration of the verification loop, assert(VerifyScript(
\* vin[i] ...)); after the last one the loop is left.
VerifyInput ==
    /\ At("verify")
    /\ vin < NUM_INPUTS
    /\ Ran
    /\ \E ok \in BOOLEAN :
          /\ badInput' = IF ok THEN badInput ELSE vin
          /\ IF AssertPasses(ok)
             THEN /\ vin' = vin + 1
                  /\ bpc' = IF vin + 1 < NUM_INPUTS THEN bpc ELSE bpc + 1
                  /\ bstatus' = bstatus
             ELSE /\ vin' = vin
                  /\ bpc' = bpc
                  /\ bstatus' = "aborted"
    /\ UNCHANGED <<bench, btimer, bret, newParams, proofOk, MAX_BLOCK_SIZE, txSize>>
    /\ UNCHANGED nonBenchVars

BenchNext ==
    \/ PlainStep
    \/ BenchTimerStart
    \/ BenchTimerStop
    \/ BenchReturn
    \/ AllocParams
    \/ LoadKey
    \/ DeleteParams
    \/ AssertProofVerifies
    \/ SerializeTx
    \/ AssertSize
    \/ VerifyInput

\* ------------------- benchmark_solve_equihash run concurrently, lines 103-128
Instances == 1..MaxInstances
Nonces == 1..MaxNonce

\* The (n, k) tables Params() may hold: the main network's and a test one's.
ParamChoices == {[n |-> 200, k |-> 9], [n |-> 48, k |-> 5]}

StaticSlot(c) == 1

\* Where call c's locals live. They are automatic variables (lines 105-124):
\* each call has its own.
LocalSlot(c) == c

EmptyFrame == [ss |-> "none", n |-> 0, k |-> 0, eh_state |-> <<>>, nonce |-> 0,
               tv_start |-> "unset", solns |-> "none"]

SolveStart(cs) ==
    /\ chainParams \in ParamChoices
    /\ frame = [sl \in Instances |-> EmptyFrame]
    /\ spc = [c \in Instances |-> IF c \in cs THEN 1 ELSE Len(SolveEquihashSteps) + 1]
    /\ drew = [c \in Instances |-> 0]
    /\ solved = [c \in Instances |-> <<>>]
    /\ writers = [sl \in Instances |-> {}]

\* No call of benchmark_solve_equihash is running.
SolveIdle == SolveStart({}) /\ chainParams = [n |-> 200, k |-> 9]

SolveInit == SolveStart(Instances)

SAt(c, nm) ==
    /\ spc[c] <= Len(SolveEquihashSteps)
    /\ SolveEquihashSteps[spc[c]].name = nm

\* Call c wrote field f of its locals and went on to its next statement.
Wrote(c, f, v) ==
    /\ frame' = [frame EXCEPT ![LocalSlot(c)][f] = v]
    /\ writers' = [writers EXCEPT ![LocalSlot(c)] = @ \cup {c}]
    /\ spc' = [spc EXCEPT ![c] = @ + 1]

Mine(c) == frame[LocalSlot(c)]

\* Lines 105-108: CBlock pblock; CEquihashInput I{pblock}; ss << I.
SerializeHeader(c) ==
    /\ SAt(c, "serialize_header")
    /\ Wrote(c, "ss", "header")
    /\ UNCHANGED <<chainParams, drew, solved>>
    /\ UNCHANGED nonSolveVars

\* Lines 110-111: n and k read from the chain parameters.
ReadParams(c) ==
    /\ SAt(c, "EquihashN_K")
    /\ frame' = [frame EXCEPT ![LocalSlot(c)].n = chainParams.n,
                              ![LocalSlot(c)].k = chainParams.k]
    /\ writers' = [writers EXCEPT ![LocalSlot(c)] = @ \cup {c}]
    /\ spc' = [spc EXCEPT ![c] = @ + 1]
    /\ UNCHANGED <<chainParams, drew, solved>>
    /\ UNCHANGED nonSolveVars

\* Lines 112-113: EhInitialiseState(n, k, eh_state).
InitialiseState(c) ==
    /\ SAt(c, "EhInitialiseState")
    /\ Wrote(c, "eh_state", << [n |-> Mine(c).n, k |-> Mine(c).k] >>)
    /\ UNCHANGED <<chainParams, drew, solved>>
    /\ UNCHANGED nonSolveVars

\* Line 114: the header's bytes go into the hash state.
UpdateHeader(c) ==
    /\ SAt(c, "update_header")
    /\ Wrote(c, "eh_state", Append(Mine(c).eh_state, Mine(c).ss))
    /\ UNCHANGED <<chainParams, drew, solved>>
    /\ UNCHANGED nonSolveVars

\* Lines 116-117: randombytes_buf(nonce.begin(), 32).
GenerateNonce(c) ==
    /\ SAt(c, "randombytes_buf")
    /\ \E v \in Nonces :
          /\ Wrote(c, "nonce", v)
          /\ drew' = [drew EXCEPT ![c] = v]
    /\ UNCHANGED <<chainParams, solved>>
    /\ UNCHANGED nonSolveVars

\* Lines 118-120: the nonce goes into the hash state.
UpdateNonce(c) ==
    /\ SAt(c, "update_nonce")
    /\ Wrote(c, "eh_state", Append(Mine(c).eh_state, Mine(c).nonce))
    /\ UNCHANGED <<chainParams, drew, solved>>
    /\ UNCHANGED nonSolveVars

\* Lines 122-123: timer_start(tv_start).
SolveTimerStart(c) ==
    /\ SAt(c, "timer_start")
    /\ Wrote(c, "tv_start", "set")
    /\ UNCHANGED <<chainParams, drew, solved>>
    /\ UNCHANGED nonSolveVars

\* Line 124: std::set<std::vector<unsigned int>> solns.
DeclareSolns(c) ==
    /\ SAt(c, "solns")
    /\ Wrote(c, "solns", "empty")
    /\ UNCHANGED <<chainParams, drew, solved>>
    /\ UNCHANGED nonSolveVars

\* Lines 125-126: the solver runs on n, k and eh_state; the callback rejects
\* every solution and stores none.
Solve(c) ==
    /\ SAt(c, "EhOptimisedSolveUncancellable")
    /\ solved' = [solved EXCEPT ![c] =
                     << [n |-> Mine(c).n, k |-> Mine(c).k] >> \o Mine(c).eh_state]
    /\ spc' = [spc EXCEPT ![c] = @ + 1]
    /\ UNCHANGED <<chainParams, frame, drew, writers>>
    /\ UNCHANGED nonSolveVars

\* Line 127: return timer_stop(tv_start), which reads tv_start; the call is over.
SolveTimerStop(c) ==
    /\ SAt(c, "timer_stop")
    /\ Mine(c).tv_start = "set"
    /\ spc' = [spc EXCEPT ![c] = @ + 2]
    /\ UNCHANGED <<chainParams, frame, drew, solved, writers>>
    /\ UNCHANGED nonSolveVars

SolveNext ==
    \/ \E c \in Instances : SerializeHeader(c)
    \/ \E c \in Instances : ReadParams(c)
    \/ \E c \in Instances : InitialiseState(c)
    \/ \E c \in Instances : UpdateHeader(c)
    \/ \E c \in Instances : GenerateNonce(c)
    \/ \E c \in Instances : UpdateNonce(c)
    \/ \E c \in Instances : SolveTimerStart(c)
    \/ \E c \in Instances : DeclareSolns(c)
    \/ \E c \in Instances : Solve(c)
    \/ \E c \in Instances : SolveTimerStop(c)

\* ------------------------------------------------- the runner, lines 130-144
\* A future is ready once its task stored a value or an exception.
IsReady(st, t) == st[t] \in {"ready", "failed"}

ReadyIdx(ts, st) == {j \in 1..Len(ts) : IsReady(st, ts[j])}

End(ts) == Len(ts) + 1

WaitForAnyBlocksOnEmpty(ts, st) ==
    IF ReadyIdx(ts, st) = {} THEN {} ELSE {Min(ReadyIdx(ts, st))}

WaitForAnyLast(ts, st) ==
    IF ts = <<>> THEN {End(ts)}
    ELSE IF ReadyIdx(ts, st) = {} THEN {}
    ELSE {Max(ReadyIdx(ts, st))}

\* boost::wait_for_any(begin, end): end at once for an empty range; otherwise it
\* blocks until some future of the range is ready and returns the first ready one
\* in the range's order. The set of iterators it can return now; {} while it blocks.
WaitForAny(ts, st) ==
    IF ts = <<>> THEN {End(ts)}
    ELSE IF ReadyIdx(ts, st) = {} THEN {}
    ELSE {Min(ReadyIdx(ts, st))}

\* The launch loop's condition, line 134.
LaunchCondOffByOne(k, n) == k <= n
LaunchCond(k, n) == k < n

\* shared_future::get(), line 139: the stored value, or the stored exception rethrown.
GetSwallows(st, t) == "value"
Get(st, t) == IF st[t] = "failed" THEN "throw" ELSE "value"

\* std::vector::erase(it), line 140.
EraseFirst(ts, k) == SubSeq(ts, 2, Len(ts))
Erase(ts, k) == SubSeq(ts, 1, k - 1) \o SubSeq(ts, k + 1, Len(ts))

RunnerStart(ns) ==
    /\ nThreads \in ns
    /\ i = 0
    /\ tasks = <<>>
    /\ ret = <<>>
    /\ it = 0
    /\ rpc = "launch"
    /\ tstate = [t \in TaskIds |-> "idle"]
    /\ tresult = [t \in TaskIds |-> 0]
    /\ aborted = FALSE
    /\ order = <<>>
    /\ finished = <<>>
    /\ readyAtPick = [t \in TaskIds |-> {}]

\* The runner is not in use.
RunnerIdle == RunnerStart({0})

\* Lines 134-136: one iteration of the launch loop, boost::async starts a task.
Launch ==
    /\ ~aborted
    /\ rpc = "launch"
    /\ LaunchCond(i, nThreads)
    /\ i + 1 \in TaskIds
    /\ tasks' = Append(tasks, i + 1)
    /\ tstate' = [tstate EXCEPT ![i + 1] = "running"]
    /\ i' = i + 1
    /\ UNCHANGED <<nThreads, ret, it, rpc, tresult, aborted, order, finished, readyAtPick>>
    /\ UNCHANGED nonRunnerVars

\* The effect of a wait_for_any call that returns iterator r.
Picked(r) ==
    /\ it' = r
    /\ readyAtPick' =
         IF r = End(tasks) THEN readyAtPick
         ELSE [readyAtPick EXCEPT ![tasks[r]] = {tasks[j] : j \in ReadyIdx(tasks, tstate)}]

\* Line 137: the launch loop is over; the first wait_for_any.
WaitFirst ==
    /\ ~aborted
    /\ rpc = "launch"
    /\ ~LaunchCond(i, nThreads)
    /\ \E r \in WaitForAny(tasks, tstate) : Picked(r)
    /\ rpc' = "loop"
    /\ UNCHANGED <<nThreads, i, tasks, ret, tstate, tresult, aborted, order, finished>>
    /\ UNCHANGED nonRunnerVars

\* Lines 138-140: the loop's test holds; get(), push_back, erase. A stored
\* exception leaves the function through get().
Collect ==
    /\ ~aborted
    /\ rpc = "loop"
    /\ it # End(tasks)
    /\ IF Get(tstate, tasks[it]) = "throw"
       THEN /\ rpc' = "threw"
            /\ UNCHANGED <<ret, tasks, order>>
       ELSE /\ ret' = Append(ret, tresult[tasks[it]])
            /\ order' = Append(order, tasks[it])
            /\ tasks' = Erase(tasks, it)
            /\ rpc' = "wait"
    /\ UNCHANGED <<nThreads, i, it, tstate, tresult, aborted, finished, readyAtPick>>
    /\ UNCHANGED nonRunnerVars

\* Line 141: wait_for_any over what is left.
WaitNext ==
    /\ ~aborted
    /\ rpc = "wait"
    /\ \E r \in WaitForAny(tasks, tstate) : Picked(r)
    /\ rpc' = "loop"
    /\ UNCHANGED <<nThreads, i, tasks, ret, tstate, tresult, aborted, order, finished>>
    /\ UNCHANGED nonRunnerVars

\* Lines 138, 143: the loop's test fails; return ret.
Return ==
    /\ ~aborted
    /\ rpc = "loop"
    /\ it = End(tasks)
    /\ rpc' = "returned"
    /\ UNCHANGED <<nThreads, i, tasks, ret, it, tstate, tresult, aborted, order,
                   finished, readyAtPick>>
    /\ UNCHANGED nonRunnerVars

\* Line 135: a task's benchmark_solve_equihash returns its duration.
TaskFinish(t) ==
    /\ ~aborted
    /\ tstate[t] = "running"
    /\ \E d \in Durations : tresult' = [tresult EXCEPT ![t] = d]
    /\ tstate' = [tstate EXCEPT ![t] = "ready"]
    /\ finished' = Append(finished, t)
    /\ UNCHANGED <<nThreads, i, tasks, ret, it, rpc, aborted, order, readyAtPick>>
    /\ UNCHANGED nonRunnerVars

\* Line 135: a task's benchmark_solve_equihash leaves by an exception, which
\* boost::async stores in the task's future.
TaskThrow(t) ==
    /\ ~aborted
    /\ tstate[t] = "running"
    /\ tstate' = [tstate EXCEPT ![t] = "failed"]
    /\ finished' = Append(finished, t)
    /\ UNCHANGED <<nThreads, i, tasks, ret, it, rpc, tresult, aborted, order, readyAtPick>>
    /\ UNCHANGED nonRunnerVars

\* Line 135: an assert inside a task fails: abort() ends the process, every
\* thread with it.
TaskAbort(t) ==
    /\ ~aborted
    /\ tstate[t] = "running"
    /\ aborted' = TRUE
    /\ UNCHANGED <<nThreads, i, tasks, ret, it, rpc, tstate, tresult, order, finished,
                   readyAtPick>>
    /\ UNCHANGED nonRunnerVars

RunnerStep == Launch \/ WaitFirst \/ Collect \/ WaitNext \/ Return

RunnerNext ==
    \/ Launch
    \/ WaitFirst
    \/ Collect
    \/ WaitNext
    \/ Return
    \/ \E t \in TaskIds : TaskFinish(t)
    \/ \E t \in TaskIds : TaskThrow(t)
    \/ \E t \in TaskIds : TaskAbort(t)

RunnerInit == RunnerStart(0..MaxThreads)

\* ------------------------------------------------------- the specifications
\* One specification per part of the file; the parts share no state.
TimerSpecInit == TimerInit /\ RunnerIdle /\ BenchIdle /\ SolveIdle

TimerSpec == TimerSpecInit /\ [][TimerNext]_vars

BenchSpecInit == BenchInit /\ TimerIdle /\ RunnerIdle /\ SolveIdle

BenchSpec == BenchSpecInit /\ [][BenchNext]_vars

SolveSpecInit == SolveInit /\ TimerIdle /\ RunnerIdle /\ BenchIdle

SolveSpec == SolveSpecInit /\ [][SolveNext]_vars

RunnerSpecInit == RunnerInit /\ TimerIdle /\ BenchIdle /\ SolveIdle

RunnerSpec == RunnerSpecInit /\ [][RunnerNext]_vars

\* The runner is an OS thread that runs whenever it is not blocked; nothing
\* makes a task finish.
FairRunnerSpec == RunnerSpec /\ WF_vars(RunnerStep)

\* ------------------------------------------------------ the runner's claims
Launched == 1..nThreads

Gathering == rpc \in {"loop", "wait", "returned"}

\* C1: whenever benchmark_solve_equihash_threaded(n) returns, ret holds exactly
\* n durations; and with n = 0 the wait_for_any it reaches never blocks: it
\* returns end() at once, so the runner returns the empty sequence.
C1_ReturnsNDurations ==
    /\ rpc = "returned" => Len(ret) = nThreads
    /\ (nThreads = 0 /\ rpc = "launch") => WaitForAny(tasks, tstate) = {End(tasks)}
    /\ (nThreads = 0 /\ rpc = "returned") => ret = <<>>

C1_Witness == rpc = "returned" /\ nThreads = MaxThreads /\ Len(ret) = MaxThreads

\* C2 as stated: the result is in strict completion order: a task that finished
\* before another one stands before it in the result.
C2_StrictCompletionOrder ==
    \A a, b \in Range(order) :
        Pos(finished, a) < Pos(finished, b) => Pos(order, a) < Pos(order, b)

\* C2 as amended: the result is in completion order except among tasks that were
\* already ready at one wait_for_any: if A stands before B in the result, then A
\* finished before B, or B was ready too when A was picked and A was launched
\* before B.
C2_CompletionOrderUpToReadySet ==
    \A a, b \in Range(order) :
        Pos(order, a) < Pos(order, b) =>
            \/ Pos(finished, a) < Pos(finished, b)
            \/ (b \in readyAtPick[a] /\ a < b)

\* Task 2 finished before task 1 and both were ready at one wait: the result
\* has them in launch order.
C2_Witness ==
    /\ rpc = "returned"
    /\ Len(order) >= 2
    /\ \E a, b \in Range(order) :
          /\ Pos(order, a) < Pos(order, b)
          /\ Pos(finished, b) < Pos(finished, a)

AllTasksDone == \A t \in Launched : tstate[t] = "ready"

\* The runner has not ended and cannot take a step.
RunnerBlocked ==
    /\ ~aborted
    /\ rpc \notin {"returned", "threw"}
    /\ ~ENABLED RunnerStep

\* The runner is at one of its two wait_for_any calls.
AtWaitForAny == (rpc = "launch" /\ ~LaunchCond(i, nThreads)) \/ rpc = "wait"

\* C3: under fair scheduling of the runner, once every one of the n tasks has
\* completed, the runner returns; and the runner is blocked only at a
\* wait_for_any, with a pending task still running.
C3_ReturnsOnceAllComplete ==
    /\ AllTasksDone ~> (rpc = "returned")
    /\ [](RunnerBlocked =>
            /\ AtWaitForAny
            /\ \E t \in Range(tasks) : tstate[t] = "running")

C3_Witness == rpc = "returned" /\ nThreads = MaxThreads /\ AllTasksDone

\* C4: in a run where a task failed (by an exception or by a failed assert), the
\* runner does not return a result.
C4_NoResultAfterFailure ==
    (aborted \/ \E t \in Launched : tstate[t] = "failed") => rpc # "returned"

\* A task failed after another one's duration was collected, and the run ended
\* without a result.
C4_Witness ==
    /\ \E t \in Launched : tstate[t] = "failed"
    /\ rpc = "threw"
    /\ Len(ret) > 0

\* C10: in the gathering loop the collected and the pending tasks partition the
\* launched ones: the counts add up to n, what was collected had completed and
\* is the task's own result, no task is collected twice, none is dropped; the
\* returned durations are, as a multiset, the n tasks' results.
C10_Partition ==
    Gathering =>
        /\ Len(ret) + Len(tasks) = nThreads
        /\ Len(order) = Len(ret)
        /\ Range(order) \cup Range(tasks) = Launched
        /\ Range(order) \cap Range(tasks) = {}
        /\ Cardinality(Range(order)) = Len(order)
        /\ Cardinality(Range(tasks)) = Len(tasks)
        /\ \A k \in 1..Len(order) :
              /\ tstate[order[k]] = "ready"
              /\ ret[k] = tresult[order[k]]
        /\ rpc = "returned" =>
              \A d \in Durations :
                  Count(ret, 1..Len(ret), d) = Count(tresult, Launched, d)

C10_Witness ==
    /\ rpc = "wait"
    /\ Len(ret) = 1
    /\ Len(tasks) = MaxThreads - 1
    /\ order[1] # 1

\* -------------------------------------------------------- the timer's claim
\* A timeval as a count of microseconds.
TotalMicros(t) == t.sec * USEC_PER_SEC + t.usec

\* C5: timer_stop returns (end.sec - start.sec) + (end.usec - start.usec)/10^6,
\* which is the difference of the two timestamps in microseconds over 10^6, also
\* when end.usec < start.usec, and is >= 0 when the clock read at timer_stop is
\* not before the one read at timer_start.
C5_ElapsedIsMicrosDifference ==
    tpc = "stopped" =>
        /\ elapsed = TotalMicros(tv_end) - TotalMicros(tv_start)
        /\ TotalMicros(tv_end) >= TotalMicros(tv_start) => elapsed >= 0

\* A stop whose microseconds field is below the start's, one second later.
C5_Witness ==
    /\ tpc = "stopped"
    /\ tv_end.usec < tv_start.usec
    /\ tv_end.sec = tv_start.sec + 1
    /\ elapsed > 0
    /\ elapsed < USEC_PER_SEC

\* ------------------------------------------- the benchmark operations' claims
\* What the catalogue lists as setup, by the statements that do it.
CatalogueSetup(b) ==
    CASE b = "parameter_loading" -> {"pk_path", "vk_path"}
      [] b = "create_joinsplit" -> {"anchor"}
      [] b = "solve_equihash" ->
            {"serialize_header", "EhInitialiseState", "update_header", "randombytes_buf"}
      [] b = "verify_equihash" -> {"GenesisBlock"}
      [] b = "large_tx" ->
            {"MakeNewKey", "orig_tx", "spending_tx_vin", "SignSignature", "serialize",
             "assert_size"}
      [] OTHER -> {}

\* The operation under study, by the statements that perform it (with the
\* declaration of a local it takes as an argument or fills).
UnderStudy(b) ==
    CASE b = "sleep" -> {"sleep"}
      [] b = "parameter_loading" ->
            {"Unopened", "loadVerifyingKey", "setProvingKeyPath", "loadProvingKey"}
      [] b = "create_joinsplit" -> {"JSDescription"}
      [] b = "verify_joinsplit" -> {"pubKeyHash", "Verify"}
      [] b = "solve_equihash" -> {"solns", "EhOptimisedSolveUncancellable"}
      [] b = "verify_equihash" -> {"CheckEquihashSolution"}
      [] b = "large_tx" -> {"VerifyScript"}

PostChecks(b) == IF b = "create_joinsplit" THEN {"assert_Verify"} ELSE {}

\* C6: in every benchmark operation the steps the catalogue lists as setup are
\* done when the timer starts and none runs later, only the operation under
\* study runs while the timer runs, and the post-check runs after timer_stop.
C6_SetupOutsideTimedRegion ==
    /\ btimer # "unset" => CatalogueSetup(bench) \subseteq before
    /\ CatalogueSetup(bench) \cap (during \cup after) = {}
    /\ during \subseteq UnderStudy(bench)
    /\ UnderStudy(bench) \cap (before \cup after) = {}
    /\ PostChecks(bench) \cap (before \cup during) = {}
    /\ bstatus = "returned" =>
          /\ btimer = "stopped"
          /\ during = UnderStudy(bench)
          /\ PostChecks(bench) \subseteq after

C6_Witness ==
    /\ bench = "create_joinsplit"
    /\ bstatus = "returned"
    /\ "anchor" \in before
    /\ during = {"JSDescription"}
    /\ "assert_Verify" \in after

\* C7 as stated: benchmark_parameter_loading leaves no parameter object
\* allocated when it ends, by return or by a load's exception.
C7_ParamsReleasedOnEveryExit ==
    (bench = "parameter_loading" /\ bstatus \in {"returned", "threw"})
        => newParams # "allocated"

\* The size window of the claim.
WithinFivePercent(sz, m) == m - (m \div 20) < sz /\ sz < m + (m \div 20)

\* C8: no duration is returned after a fatal check failed, and nothing runs
\* after the abort: create_joinsplit aborts when its proof does not verify;
\* large_tx starts its timer only with MAX_BLOCK_SIZE - MAX_BLOCK_SIZE/20 < size
\* < MAX_BLOCK_SIZE + MAX_BLOCK_SIZE/20 and aborts otherwise, and aborts at the
\* first input whose script fails to verify.
C8_FatalChecksAbort ==
    /\ bret => bstatus = "returned"
    /\ bstatus = "aborted" => (~bret /\ ~ENABLED BenchNext)
    /\ (bench = "create_joinsplit" /\ ~proofOk) => bstatus = "aborted"
    /\ (bench = "large_tx" /\ btimer # "unset") =>
          WithinFivePercent(txSize, MAX_BLOCK_SIZE)
    /\ (bench = "large_tx" /\ "assert_size" \in before
            /\ ~WithinFivePercent(txSize, MAX_BLOCK_SIZE)) =>
          (bstatus = "aborted" /\ btimer = "unset")
    /\ badInput # -1 => (bstatus = "aborted" /\ vin = badInput /\ btimer = "running")
    /\ (bench = "large_tx" /\ bstatus = "returned") => (vin = NUM_INPUTS /\ badInput = -1)

\* large_tx aborted at its third input, the first one that failed.
C8_Witness ==
    /\ bench = "large_tx"
    /\ bstatus = "aborted"
    /\ badInput = 2
    /\ vin = 2
    /\ ~bret

\* ---------------------------------------------- the concurrent solves' claim
StepIndex(nm) ==
    CHOOSE j \in 1..Len(SolveEquihashSteps) : SolveEquihashSteps[j].name = nm

Past(c, nm) == spc[c] > StepIndex(nm)

\* The hash state call c builds when nothing else writes to it.
OwnState(c) == << [n |-> chainParams.n, k |-> chainParams.k], "header", drew[c] >>

\* C9: no two concurrent benchmark_solve_equihash calls write to a common
\* resource, and no call's steps change what another reads: what a call read of
\* the chain parameters is what they hold, its hash state holds its own header
\* and nonce only, its timer is the one it started, and its solver ran on its
\* own state.
C9_NoSharedWrites ==
    /\ \A sl \in Instances : Cardinality(writers[sl]) <= 1
    /\ \A c \in Instances :
          /\ Past(c, "EquihashN_K") =>
                (Mine(c).n = chainParams.n /\ Mine(c).k = chainParams.k)
          /\ Past(c, "randombytes_buf") => Mine(c).nonce = drew[c]
          /\ Past(c, "update_nonce") => Mine(c).eh_state = OwnState(c)
          /\ Past(c, "EhOptimisedSolveUncancellable") =>
                solved[c] = << [n |-> chainParams.n, k |-> chainParams.k] >> \o OwnState(c)
          /\ (Past(c, "timer_start") /\ ~Past(c, "timer_stop")) =>
                Mine(c).tv_start = "set"

\* Two calls with different nonces are both inside the timed region.
C9_Witness ==
    /\ \A c \in Instances : Past(c, "timer_start") /\ ~Past(c, "timer_stop")
    /\ \E c, d \in Instances : drew[c] # drew[d]

====
